---- MODULE Spec2Model ----
(***************************************************************************)
(* RedisLogger: a logging proxy for the Redis wire protocol.               *)
(*                                                                         *)
(*   protocol/parser.go  (src/unnamed/part_000)  Parser.ReadCommand        *)
(*   proxy/proxy.go      (src/config/config.go, lines 223-414)             *)
(*                       Proxy.Start, Proxy.handleConnection               *)
(*   main.go             (src/config/config.go, lines 28-90)   main        *)
(*                                                                         *)
(* Bytes are their integer values.  A connection's inbound stream is the   *)
(* sequence of bytes its peer sends on it; a read past its end blocks      *)
(* while the peer keeps its side open and reports EOF once it has closed.  *)
(***************************************************************************)
EXTENDS Integers, Sequences, FiniteSets, TLC

(***************************************************************************)
(* Bounds of the model.                                                    *)
(***************************************************************************)
\* most bulk strings of a generated array request
MaxArgs == 2
\* longest payload of a generated bulk string
MaxLen == 1
\* most reply bytes a backend sends on one connection
MaxReply == 1
\* most args of a generated request with a command name of the switch
MaxClassArgs == 3
\* most args after key and value of a generated SET request
MaxOpts == 3
\* most bytes a backend has sent before the first read of io.Copy
MaxBurst == 2

(***************************************************************************)
(* Bytes the parser names.                                                 *)
(***************************************************************************)
STAR == 42
DOLLAR == 36
PLUS == 43
MINUS == 45
COLON == 58
CR == 13
LF == 10

CRLF == <<CR, LF>>

\* fmt's isSpace: the table `space` of white-space runes
isSpace(r) ==
    \/ r \in 9..13
    \/ r \in {32, 133, 160, 5760, 8232, 8233, 8239, 8287, 12288}
    \/ r \in 8192..8202

\* fmt's decimalDigits = "0123456789", the digits of verb d
isDigitTok(r) == r \in 48..57

(***************************************************************************)
(* unicode/utf8: runes are their code points.                              *)
(***************************************************************************)
\* utf8.RuneError, U+FFFD
RuneError == 65533

\* the length of the encoding that the first byte b announces; 1 also for a byte
\* that starts no encoding
RuneLen(b) ==
    IF b >= 194 /\ b <= 223 THEN 2
    ELSE IF b >= 224 /\ b <= 239 THEN 3
    ELSE IF b >= 240 /\ b <= 244 THEN 4
    ELSE 1

\* b may be byte k (2, 3 or 4) of an encoding whose first byte is b1: acceptRanges
\* for the second byte, a continuation byte for the others
Continues(b1, k, b) ==
    IF k = 2
    THEN /\ b >= (IF b1 = 224 THEN 160 ELSE IF b1 = 240 THEN 144 ELSE 128)
         /\ b <= (IF b1 = 237 THEN 159 ELSE IF b1 = 244 THEN 143 ELSE 191)
    ELSE b >= 128 /\ b <= 191

\* utf8.FullRune(buf) for a buffer of one byte or more
FullRune(buf) ==
    \/ Len(buf) >= RuneLen(buf[1])
    \/ \E k \in 2..Len(buf) : ~Continues(buf[1], k, buf[k])

\* utf8.DecodeRune(buf) for a buffer of one byte or more: the rune and its width
DecodeRune(buf) ==
    LET b == buf[1]
        need == RuneLen(b)
    IN  IF b < 128 THEN [r |-> b, size |-> 1]
        ELSE IF \/ need = 1
                \/ Len(buf) < need
                \/ \E k \in 2..need : ~Continues(b, k, buf[k])
             THEN [r |-> RuneError, size |-> 1]
        ELSE IF need = 2
             THEN [r |-> (b - 192) * 64 + (buf[2] - 128), size |-> 2]
        ELSE IF need = 3
             THEN [r |-> (b - 224) * 4096 + (buf[2] - 128) * 64 + (buf[3] - 128),
                   size |-> 3]
        ELSE [r |-> (b - 240) * 262144 + (buf[2] - 128) * 4096 + (buf[3] - 128) * 64
                        + (buf[4] - 128),
              size |-> 4]

\* utf8.EncodeRune
EncodeRune(r) ==
    IF r < 128 THEN <<r>>
    ELSE IF r < 2048 THEN <<192 + (r \div 64), 128 + (r % 64)>>
    ELSE IF r < 65536
         THEN <<224 + (r \div 4096), 128 + ((r \div 64) % 64), 128 + (r % 64)>>
    ELSE <<240 + (r \div 262144), 128 + ((r \div 4096) % 64), 128 + ((r \div 64) % 64),
           128 + (r % 64)>>

(***************************************************************************)
(* Results of the reading primitives: st is "ok", "err" or "block" (the    *)
(* read waits for bytes the peer has not sent and has not closed); pos is  *)
(* the position of the first byte the reader has not taken from the stream.*)
(***************************************************************************)
R(st, val, pos, err) == [st |-> st, val |-> val, pos |-> pos, err |-> err]

ROk(val, pos) == R("ok", val, pos, "")

RErr(err, pos) == R("err", 0, pos, err)

\* a read waits at the end of what the peer has sent: all of it has been taken
RBlock(in) == R("block", 0, Len(in) + 1, "")

\* io.Reader.Read into a one-byte buffer: one byte, EOF, or wait
AtEOF(in, p, closed) == p > Len(in) /\ closed

Waits(in, p, closed) == p > Len(in) /\ ~closed

(***************************************************************************)
(* fmt.Fscanf(reader, "%d\r\n", &n) and fmt.Fscanf(reader, "$%d\r\n", &n)  *)
(* on a reader that is no io.RuneScanner: fmt reads it through its         *)
(* readRune, one byte at a time and as many bytes as make a rune.  Bytes   *)
(* that readRune has read stay taken from the stream when Fscanf returns,  *)
(* also those of a rune that was read and unread.                          *)
(***************************************************************************)
\* the loop `for n = 1; !utf8.FullRune(r.buf[:n]); n++` of readRune.ReadRune for the
\* rune that starts at p, n bytes of it read: how many bytes it reads (EOF ends the
\* loop), or 0 when it waits for the next byte
RECURSIVE RuneBytes(_, _, _, _)
RuneBytes(in, p, closed, n) ==
    IF FullRune(SubSeq(in, p, p + n - 1)) THEN n
    ELSE IF p + n > Len(in) THEN (IF closed THEN n ELSE 0)
    ELSE RuneBytes(in, p, closed, n + 1)

\* readRune.ReadRune at position p: st is "ok", "eof" or "block"; r is the rune,
\* size its width and n the number of bytes read for it (n > size for a RuneError
\* that was decoded from several bytes: readRune keeps the others pending and
\* decodes them again)
ReadRune(in, p, closed) ==
    IF AtEOF(in, p, closed) THEN [st |-> "eof", r |-> 0, size |-> 0, n |-> 0]
    ELSE IF Waits(in, p, closed) THEN [st |-> "block", r |-> 0, size |-> 0, n |-> 0]
    ELSE IF in[p] < 128 THEN [st |-> "ok", r |-> in[p], size |-> 1, n |-> 1]
    ELSE LET Decoded(n, d) == [st |-> "ok", r |-> d.r, size |-> d.size, n |-> n]
             Read(n) == IF n = 0 THEN [st |-> "block", r |-> 0, size |-> 0, n |-> 0]
                        ELSE Decoded(n, DecodeRune(SubSeq(in, p, p + n - 1)))
         IN  Read(RuneBytes(in, p, closed, 1))

\* ss.SkipSpace with nlIsSpace = false
RECURSIVE SkipSpace(_, _, _)
SkipSpace(in, p, closed) ==
    LET After(c) ==
            IF c.st = "eof" THEN ROk(0, p)
            ELSE IF c.st = "block" THEN RBlock(in)
            ELSE IF c.r = CR /\ ReadRune(in, p + 1, closed).st = "block" THEN RBlock(in)
            ELSE IF c.r = CR /\ p + 1 <= Len(in) /\ in[p + 1] = LF
                 THEN RErr("unexpected newline", p + 2)
            ELSE IF c.r = LF THEN RErr("unexpected newline", p + 1)
            ELSE IF isSpace(c.r) THEN SkipSpace(in, p + c.size, closed)
            ELSE ROk(0, p)
    IN  After(ReadRune(in, p, closed))

\* the loop `for s.accept(digits) {}` of ss.scanNumber: pos is the position after
\* the token, val the number of bytes read for the rune that ended it
RECURSIVE ScanDigits(_, _, _)
ScanDigits(in, p, closed) ==
    LET After(c) ==
            IF c.st = "eof" THEN ROk(0, p)
            ELSE IF c.st = "block" THEN RBlock(in)
            ELSE IF isDigitTok(c.r) THEN ScanDigits(in, p + 1, closed)
            ELSE ROk(c.n, p)
    IN  After(ReadRune(in, p, closed))

\* strconv.ParseInt(tok, 10, 64) of a token of decimal digits
RECURSIVE ParseDigits(_)
ParseDigits(tok) ==
    IF tok = <<>> THEN 0
    ELSE 10 * ParseDigits(SubSeq(tok, 1, Len(tok) - 1)) + (tok[Len(tok)] - 48)

\* ss.scanInt for verb d, after the leading space was skipped: notEOF, the sign,
\* scanNumber, ParseInt.  The tokens of this model stay far below 2^63.
ScanInt(in, p, closed) ==
    LET Token(neg, tok, d) ==
            ROk(IF neg THEN 0 - ParseDigits(tok) ELSE ParseDigits(tok), d.pos)
        Digits(neg, q, d) ==
            IF d.st # "ok" THEN d ELSE Token(neg, SubSeq(in, q, d.pos - 1), d)
        Number(neg, q, c) ==
            IF c.st = "eof" THEN RErr("EOF", q)
            ELSE IF c.st = "block" THEN RBlock(in)
            ELSE IF ~isDigitTok(c.r) THEN RErr("expected integer", q + c.n)
            ELSE Digits(neg, q, ScanDigits(in, q + 1, closed))
        Signed(neg, q) == Number(neg, q, ReadRune(in, q, closed))
        Sign(s) ==
            IF s.st = "eof" THEN RErr("EOF", p)
            ELSE IF s.st = "block" THEN RBlock(in)
            ELSE Signed(s.r = MINUS, IF s.r \in {PLUS, MINUS} THEN p + 1 ELSE p)
    IN  Sign(ReadRune(in, p, closed))

\* ss.advance on the format's "\r\n": spaces, then a newline or the end of input
RECURSIVE MatchNewline(_, _, _)
MatchNewline(in, p, closed) ==
    LET After(c) ==
            IF c.st = "eof" THEN ROk(0, p)
            ELSE IF c.st = "block" THEN RBlock(in)
            ELSE IF c.r = LF THEN ROk(0, p + 1)
            ELSE IF isSpace(c.r) THEN MatchNewline(in, p + c.size, closed)
            ELSE RErr("newline in format does not match input", p + c.n)
    IN  After(ReadRune(in, p, closed))

\* fmt.Fscanf(p.reader, "%d\r\n", &n)
FscanfInt(in, p, closed) ==
    LET Newline(n, e) == IF e.st # "ok" THEN e ELSE ROk(n.val, e.pos)
        Number(n) == IF n.st # "ok" THEN n ELSE Newline(n, MatchNewline(in, n.pos, closed))
        Space(s) == IF s.st # "ok" THEN s ELSE Number(ScanInt(in, s.pos, closed))
    IN  Space(SkipSpace(in, p, closed))

\* fmt.Fscanf(p.reader, "$%d\r\n", &n)
FscanfBulkLen(in, p, closed) ==
    LET After(c) ==
            IF c.st = "eof" THEN RErr("unexpected EOF", p)
            ELSE IF c.st = "block" THEN RBlock(in)
            ELSE IF c.r # DOLLAR THEN RErr("input does not match format", p + c.n)
            ELSE FscanfInt(in, p + 1, closed)
    IN  After(ReadRune(in, p, closed))

\* fmt.Sprintf("%d", v)
RECURSIVE FormatNat(_)
FormatNat(v) ==
    IF v < 10 THEN <<48 + v>> ELSE Append(FormatNat(v \div 10), 48 + (v % 10))

\* FormatInt that drops the sign
FormatInt_NoSign(v) == IF v < 0 THEN FormatNat(0 - v) ELSE FormatNat(v)

FormatInt(v) == IF v < 0 THEN <<MINUS>> \o FormatNat(0 - v) ELSE FormatNat(v)

\* io.ReadFull(p.reader, make([]byte, n)) for n >= 0
ReadFull(in, p, closed, n) ==
    IF p + n - 1 <= Len(in) THEN ROk(0, p + n)
    ELSE IF ~closed THEN RBlock(in)
    ELSE IF p > Len(in) THEN RErr("EOF", p)
    ELSE RErr("unexpected EOF", Len(in) + 1)

\* p.reader.Read(make([]byte, 2)): one call, which returns what the transport has,
\* one byte or two; short says that it delivers one although a second follows
ReadTwo(in, p, closed, short) ==
    IF AtEOF(in, p, closed) THEN RErr("EOF", p)
    ELSE IF Waits(in, p, closed) THEN RBlock(in)
    ELSE IF p + 1 > Len(in) \/ short THEN ROk(0, p + 1)
    ELSE ROk(0, p + 2)

(***************************************************************************)
(* protocol.Parser                                                         *)
(***************************************************************************)
\* Command{Name, Message, Args}; NoCmd stands for the nil *Command
Command(name, message, args) == [Name |-> name, Message |-> message, Args |-> args]

NoCmd == Command(<<>>, <<>>, <<>>)

\* What one call of ReadCommand does: it returns a Command ("cmd") or an error
\* ("err"), is still waiting for bytes ("block"), or panics ("panic").  pos is the
\* position of the first byte of the stream that the call has not taken.  Of a
\* waiting call, reads is the number of its two-byte Reads that have returned,
\* and short the bulk strings after which that Read has returned one byte.
P(kind, c, pos, err) ==
    [kind |-> kind, cmd |-> c, pos |-> pos, err |-> err, short |-> {}, reads |-> 0]

PCmd(c, pos) == P("cmd", c, pos, "")

PErr(err, pos) == P("err", NoCmd, pos, err)

PBlock(pos, short, reads) ==
    [P("block", NoCmd, pos, "") EXCEPT !.short = short, !.reads = reads]

PPanic == P("panic", NoCmd, 0, "makeslice: len out of range")

\* a failed or waiting primitive ends the call the same way
PFail(r, short, reads) ==
    IF r.st = "block" THEN PBlock(r.pos, short, reads) ELSE PErr(r.err, r.pos)

\* ArgCountInvalid with `argCount < 0`
ArgCountInvalid_Negative(n) == n < 0

\* `if argCount < 1`
ArgCountInvalid(n) == n < 1

\* make([]byte, n) panics for a negative n
MakePanics(n) == n < 0

\* parseArray from its first bulk string on: bulk i of n at position p.  Bulk 1 is
\* the command name, the others are appended to Args; buf is the strings.Builder.
\* short is the set of the bulks whose trailing two-byte Read gets one byte
\* although the peer has sent more; the Read of a bulk whose CR is the last byte
\* that has arrived gets one byte as well.
RECURSIVE readBulks(_, _, _, _, _, _, _, _, _)
readBulks(in, p, closed, short, i, n, buf, name, args) ==
    LET before == short \cap (1..(i - 1))
        Trailer(l, data, t) ==
            IF t.st # "ok" THEN PFail(t, before, i - 1)
            ELSE readBulks(in, t.pos, closed,
                           IF t.pos = l.pos + l.val + 1 THEN short \cup {i} ELSE short,
                           i + 1, n,
                           buf \o <<DOLLAR>> \o FormatInt(l.val) \o CRLF \o data \o CRLF,
                           IF i = 1 THEN data ELSE name,
                           IF i = 1 THEN args ELSE Append(args, data))
        Data(l, d) ==
            IF d.st # "ok" THEN PFail(d, before, i - 1)
            ELSE Trailer(l, SubSeq(in, l.pos, l.pos + l.val - 1),
                         ReadTwo(in, d.pos, closed, i \in short))
        Length(l) ==
            IF l.st # "ok" THEN PFail(l, before, i - 1)
            ELSE IF MakePanics(l.val) THEN PPanic
            ELSE Data(l, ReadFull(in, l.pos, closed, l.val))
    IN  IF i > n THEN PCmd(Command(name, buf, args), p)
        ELSE Length(FscanfBulkLen(in, p, closed))

\* Parser.parseArray; p is the position after the '*'
parseArray(in, p, closed, short) ==
    LET Count(c) ==
            IF c.st # "ok" THEN PFail(c, {}, 0)
            ELSE IF ArgCountInvalid(c.val) THEN PErr("invalid argument count", c.pos)
            ELSE readBulks(in, c.pos, closed, short, 1, c.val,
                           <<STAR>> \o FormatInt(c.val) \o CRLF, <<>>, <<>>)
    IN  Count(FscanfInt(in, p, closed))

\* the Name "nil" of a nil bulk string
NilName == <<110, 105, 108>>

\* Parser.parseBulkString; p is the position after the '$'
parseBulkString(in, p, closed, short) ==
    LET Trailer(l, str, t) ==
            IF t.st # "ok" THEN PFail(t, {}, 0)
            ELSE PCmd(Command(str, <<DOLLAR>> \o FormatInt(l.val) \o CRLF \o str \o CRLF,
                              <<>>), t.pos)
        Data(l, d) ==
            IF d.st # "ok" THEN PFail(d, {}, 0)
            ELSE Trailer(l, SubSeq(in, l.pos, l.pos + l.val - 1),
                         ReadTwo(in, d.pos, closed, 1 \in short))
        Length(l) ==
            IF l.st # "ok" THEN PFail(l, {}, 0)
            ELSE IF l.val = 0 - 1
                 THEN PCmd(Command(NilName, <<DOLLAR>> \o FormatInt(l.val) \o CRLF, <<>>),
                           l.pos)
            ELSE IF MakePanics(l.val) THEN PPanic
            ELSE Data(l, ReadFull(in, l.pos, closed, l.val))
    IN  Length(FscanfInt(in, p, closed))

\* Parser.readUntilCRLF: the line that started at position start, read up to p
RECURSIVE readUntilCRLF(_, _, _, _)
readUntilCRLF(in, start, p, closed) ==
    IF AtEOF(in, p, closed) THEN RErr("EOF", p)
    ELSE IF Waits(in, p, closed) THEN RBlock(in)
    ELSE IF p > start /\ in[p - 1] = CR /\ in[p] = LF
         THEN ROk(SubSeq(in, start, p - 2), p + 1)
    ELSE readUntilCRLF(in, start, p + 1, closed)

\* the prefix "ERROR: " of an error reply's Name
ErrorPrefix == <<69, 82, 82, 79, 82, 58, 32>>

\* Parser.parseSimpleString and Parser.parseInteger
parseSimpleString(in, p, closed, header) ==
    LET Line(l) ==
            IF l.st # "ok" THEN PFail(l, {}, 0)
            ELSE PCmd(Command(l.val, <<header>> \o l.val \o CRLF, <<>>), l.pos)
    IN  Line(readUntilCRLF(in, p, p, closed))

parseInteger(in, p, closed, header) == parseSimpleString(in, p, closed, header)

\* Parser.parseError
parseError(in, p, closed, header) ==
    LET Line(l) ==
            IF l.st # "ok" THEN PFail(l, {}, 0)
            ELSE PCmd(Command(ErrorPrefix \o l.val, <<header>> \o l.val \o CRLF, <<>>),
                      l.pos)
    IN  Line(readUntilCRLF(in, p, p, closed))

\* Parser.ReadCommand on the stream `in` from position p; short is the set of the
\* bulk strings of the message (1, 2, ...) whose trailing two-byte Read returns
\* one byte although a second follows
ReadCommand(in, p, closed, short) ==
    IF AtEOF(in, p, closed) THEN PErr("EOF", p)
    ELSE IF Waits(in, p, closed) THEN PBlock(p, {}, 0)
    ELSE IF in[p] = STAR THEN parseArray(in, p + 1, closed, short)
    ELSE IF in[p] = DOLLAR THEN parseBulkString(in, p + 1, closed, short)
    ELSE IF in[p] = PLUS THEN parseSimpleString(in, p + 1, closed, in[p])
    ELSE IF in[p] = MINUS THEN parseError(in, p + 1, closed, in[p])
    ELSE IF in[p] = COLON THEN parseInteger(in, p + 1, closed, in[p])
    ELSE PErr("unknown protocol type", p + 1)

\* how many bulk strings a ReadCommand call from position p can read: no more
\* than the count of the array header (one for a bulk string message) and no more
\* than there are '$' in the stream
BulkReads(in, p, closed) ==
    LET Least(count, dollars) == IF count < dollars THEN count ELSE dollars
        Count(c) ==
            IF c.st = "ok" /\ c.val >= 1
            THEN Least(c.val, Cardinality({i \in p..Len(in) : in[i] = DOLLAR}))
            ELSE 0
    IN  IF p > Len(in) THEN 0
        ELSE IF in[p] = DOLLAR THEN 1
        ELSE IF in[p] = STAR THEN Count(FscanfInt(in, p + 1, closed))
        ELSE 0

\* the ways the two-byte Reads of a ReadCommand call from position p can go
ShortReads(in, p, closed) == SUBSET (1..BulkReads(in, p, closed))

(***************************************************************************)
(* What clients send: the wire format of a request, `*<n>\r\n` followed by *)
(* n bulk strings `$<len>\r\n<len bytes>\r\n`.                             *)
(***************************************************************************)
Bulk(data) == <<DOLLAR>> \o FormatInt(Len(data)) \o CRLF \o data \o CRLF

RECURSIVE Concat(_)
Concat(ss) == IF ss = <<>> THEN <<>> ELSE Head(ss) \o Concat(Tail(ss))

Request(bulks) ==
    <<STAR>> \o FormatInt(Len(bulks)) \o CRLF \o Concat([i \in 1..Len(bulks) |-> Bulk(bulks[i])])

(***************************************************************************)
(* The proxy: main, Proxy.Start and one Proxy.handleConnection per         *)
(* accepted connection, with its two goroutines.                           *)
(***************************************************************************)
\* the connections: two, which run concurrently
Sessions == {1, 2}

\* the payload byte of the client of connection s ('A', 'B', ...) and the byte its
\* backend connection replies with ('a', 'b', ...): every connection has bytes of its own
PayloadByte(s) == 64 + s

ReplyByte(s) == 96 + s

\* `*0\r\n`
ZeroCount == <<STAR, 48, CR, LF>>

\* `*1\r\n$-1\r\n`
NilInArray == <<STAR, 49, CR, LF, DOLLAR, MINUS, 49, CR, LF>>

\* a stream of which the first k bytes have arrived and the others are yet to be
\* sent
Arrived(in, k) == [sent |-> SubSeq(in, 1, k), rest |-> SubSeq(in, k + 1, Len(in))]

\* what the client of connection s may send in the whole system: a request, or an
\* array that holds a nil bulk string; the request of the first connection
\* arrives whole or its last byte arrives later
SysInputs(s) ==
    LET one == Request(<<<<PayloadByte(s)>>>>)
    IN  { Arrived(one, Len(one)), Arrived(NilInArray, Len(NilInArray)) }
        \cup (IF s = 1 THEN {Arrived(one, Len(one) - 1)} ELSE {})

VARIABLES
    proc,       \* the process: "running", "crashed" (a panic) or "exited" (main returned)
    lpc,        \* Proxy.Start: "listen", "select", "accept" or "returned"
    cancelled,  \* ctx.Done() is closed
    acceptFailed, \* "Failed to accept connection" has been logged
    spc,        \* handleConnection of connection s: "idle" (not accepted yet), "dial",
                \* "wait" (in wg.Wait) or "closed" (returned)
    inPc,       \* its first goroutine: "none", "read", "log", "write" or "done"
    outPc,      \* its second goroutine: "none", "copy" or "done"
    cin,        \* the bytes the client has sent on conn
    crest,      \* the bytes it has yet to send
    cpos,       \* the first of them the proxy has not read
    cshut,      \* the client has closed its side
    connOpen,   \* conn is open on the proxy's side
    redis,      \* redisConn: "none", "open", "failed" (the dial) or "closed"
    bin,        \* the bytes written to redisConn
    bout,       \* the bytes the backend has sent on redisConn
    bpos,       \* the first of them io.Copy has not read
    bshut,      \* the backend has closed its side
    cout,       \* the bytes written to conn
    cmd,        \* the Command the first goroutine holds
    log,        \* the records handed to the logger: a bag
    decoded,    \* the Messages of the Commands ReadCommand has returned, in order
    last,       \* the last ReadCommand call that returned: the stream position it
                \* started at and the one it ended at, what it returned ("cmd" or
                \* "err"), the error, the Message
    call,       \* the ReadCommand call that waits for bytes after it has taken some:
                \* the stream position it started at, how many of its two-byte
                \* Reads have returned, and which of them with one byte
    dials       \* the calls of net.Dial

vars == <<proc, lpc, cancelled, acceptFailed, spc, inPc, outPc, cin, crest, cpos, cshut, connOpen,
          redis, bin, bout, bpos, bshut, cout, cmd, log, decoded, last, call, dials>>

listenerVars == <<lpc, cancelled, acceptFailed>>

clientVars == <<cin, crest, cpos, cshut, connOpen>>

backendVars == <<redis, bin, bout, bpos, bshut, cout>>

inboundVars == <<inPc, cmd, log, decoded, last, call>>

\* no ReadCommand call has returned yet
NoCall == [start |-> 0, end |-> 0, kind |-> "none", err |-> "", msg |-> <<>>]

\* no ReadCommand call waits inside a message
NoWait == [start |-> 0, short |-> {}, reads |-> 0]

\* no connection accepted, Start not called yet
Idle ==
    /\ proc = "running"
    /\ cancelled = FALSE
    /\ acceptFailed = FALSE
    /\ spc = [s \in Sessions |-> "idle"]
    /\ inPc = [s \in Sessions |-> "none"]
    /\ outPc = [s \in Sessions |-> "none"]
    /\ cin = [s \in Sessions |-> <<>>]
    /\ crest = [s \in Sessions |-> <<>>]
    /\ cpos = [s \in Sessions |-> 1]
    /\ cshut = [s \in Sessions |-> FALSE]
    /\ connOpen = [s \in Sessions |-> FALSE]
    /\ redis = [s \in Sessions |-> "none"]
    /\ bin = [s \in Sessions |-> <<>>]
    /\ bout = [s \in Sessions |-> <<>>]
    /\ bpos = [s \in Sessions |-> 1]
    /\ bshut = [s \in Sessions |-> FALSE]
    /\ cout = [s \in Sessions |-> <<>>]
    /\ cmd = [s \in Sessions |-> NoCmd]
    /\ log = <<>>
    /\ decoded = [s \in Sessions |-> <<>>]
    /\ last = [s \in Sessions |-> NoCall]
    /\ call = [s \in Sessions |-> NoWait]
    /\ dials = [s \in Sessions |-> 0]

Init == Idle /\ lpc = "listen"

(***************************************************************************)
(* main and Proxy.Start                                                    *)
(***************************************************************************)
\* net.Listen succeeds
Listen ==
    /\ proc = "running" /\ lpc = "listen"
    /\ lpc' = "select"
    /\ UNCHANGED <<proc, cancelled, acceptFailed, spc, outPc, clientVars, backendVars,
                   inboundVars, dials>>

\* net.Listen fails: Start returns the error
ListenFail ==
    /\ proc = "running" /\ lpc = "listen"
    /\ lpc' = "returned"
    /\ UNCHANGED <<proc, cancelled, acceptFailed, spc, outPc, clientVars, backendVars,
                   inboundVars, dials>>

\* the select of the accept loop: ctx.Done() when it is closed, else the default
\* branch, which calls listener.Accept
Select ==
    /\ proc = "running" /\ lpc = "select"
    /\ lpc' = IF cancelled THEN "returned" ELSE "accept"
    /\ UNCHANGED <<proc, cancelled, acceptFailed, spc, outPc, clientVars, backendVars,
                   inboundVars, dials>>

\* listener.Accept returns a connection, whose client has sent in.sent and will
\* send in.rest: go p.handleConnection(conn)
AcceptOK(s) ==
    /\ proc = "running" /\ lpc = "accept"
    /\ spc[s] = "idle" /\ \A t \in Sessions : t < s => spc[t] # "idle"
    /\ \E in \in SysInputs(s) : /\ cin' = [cin EXCEPT ![s] = in.sent]
                                /\ crest' = [crest EXCEPT ![s] = in.rest]
    /\ spc' = [spc EXCEPT ![s] = "dial"]
    /\ connOpen' = [connOpen EXCEPT ![s] = TRUE]
    /\ lpc' = "select"
    /\ UNCHANGED <<proc, cancelled, acceptFailed, outPc, cpos, cshut, backendVars,
                   inboundVars, dials>>

\* AcceptErr that returns the error instead of `continue`
AcceptErr_Fatal ==
    /\ proc = "running" /\ lpc = "accept"
    /\ acceptFailed' = TRUE
    /\ lpc' = "returned"
    /\ UNCHANGED <<proc, cancelled, spc, outPc, clientVars, backendVars, inboundVars,
                   dials>>

\* listener.Accept returns an error, which is logged: continue
AcceptErr ==
    /\ proc = "running" /\ lpc = "accept"
    /\ acceptFailed' = TRUE
    /\ lpc' = "select"
    /\ UNCHANGED <<proc, cancelled, spc, outPc, clientVars, backendVars, inboundVars,
                   dials>>

\* main receives a signal and calls cancel()
Cancel ==
    /\ proc = "running" /\ ~cancelled
    /\ cancelled' = TRUE
    /\ UNCHANGED <<proc, lpc, acceptFailed, spc, outPc, clientVars, backendVars,
                   inboundVars, dials>>

\* main returns after cancel(), or ends in logger.Fatal on the error Start returned
MainExit ==
    /\ proc = "running"
    /\ cancelled \/ lpc = "returned"
    /\ proc' = "exited"
    /\ UNCHANGED <<listenerVars, spc, outPc, clientVars, backendVars, inboundVars, dials>>

(***************************************************************************)
(* Proxy.handleConnection                                                  *)
(***************************************************************************)
\* net.Dial succeeds: the parser is made and both goroutines are started
DialOK(s) ==
    /\ proc = "running" /\ spc[s] = "dial"
    /\ dials' = [dials EXCEPT ![s] = @ + 1]
    /\ redis' = [redis EXCEPT ![s] = "open"]
    /\ spc' = [spc EXCEPT ![s] = "wait"]
    /\ inPc' = [inPc EXCEPT ![s] = "read"]
    /\ outPc' = [outPc EXCEPT ![s] = "copy"]
    /\ UNCHANGED <<proc, listenerVars, clientVars, bin, bout, bpos, bshut, cout, cmd, log,
                   decoded, last, call>>

\* DialFail without its `return`: the error is logged and the goroutines start
DialFail_NoReturn(s) ==
    /\ proc = "running" /\ spc[s] = "dial"
    /\ dials' = [dials EXCEPT ![s] = @ + 1]
    /\ redis' = [redis EXCEPT ![s] = "failed"]
    /\ spc' = [spc EXCEPT ![s] = "wait"]
    /\ inPc' = [inPc EXCEPT ![s] = "read"]
    /\ outPc' = [outPc EXCEPT ![s] = "copy"]
    /\ UNCHANGED <<proc, listenerVars, clientVars, bin, bout, bpos, bshut, cout, cmd, log,
                   decoded, last, call>>

\* net.Dial fails: the error is logged, handleConnection returns and its deferred
\* conn.Close() runs
DialFail(s) ==
    /\ proc = "running" /\ spc[s] = "dial"
    /\ dials' = [dials EXCEPT ![s] = @ + 1]
    /\ redis' = [redis EXCEPT ![s] = "failed"]
    /\ spc' = [spc EXCEPT ![s] = "closed"]
    /\ connOpen' = [connOpen EXCEPT ![s] = FALSE]
    /\ UNCHANGED <<proc, listenerVars, outPc, cin, crest, cpos, cshut, bin, bout, bpos, bshut,
                   cout, inboundVars>>

(***************************************************************************)
(* The fields of the "Received command" record (the classification of a    *)
(* Command by the first goroutine of handleConnection).  Strings are       *)
(* sequences of bytes.                                                     *)
(***************************************************************************)
\* unicode.CaseRanges, the ranges of runes that have an upper case other than
\* themselves (Unicode 14.0): <<lo, hi, stride, delta>> says that the upper case
\* of lo, lo + stride, ... up to hi is the rune plus delta
CaseRanges ==
    <<<<97, 122, 1, -32>>, <<181, 181, 1, 743>>, <<224, 246, 1, -32>>,
      <<248, 254, 1, -32>>, <<255, 255, 1, 121>>, <<257, 303, 2, -1>>,
      <<305, 305, 1, -232>>, <<307, 311, 2, -1>>, <<314, 328, 2, -1>>, <<331, 375, 2, -1>>,
      <<378, 382, 2, -1>>, <<383, 383, 1, -300>>, <<384, 384, 1, 195>>,
      <<387, 389, 2, -1>>, <<392, 392, 1, -1>>, <<396, 396, 1, -1>>, <<402, 402, 1, -1>>,
      <<405, 405, 1, 97>>, <<409, 409, 1, -1>>, <<410, 410, 1, 163>>, <<414, 414, 1, 130>>,
      <<417, 421, 2, -1>>, <<424, 424, 1, -1>>, <<429, 429, 1, -1>>, <<432, 432, 1, -1>>,
      <<436, 438, 2, -1>>, <<441, 441, 1, -1>>, <<445, 445, 1, -1>>, <<447, 447, 1, 56>>,
      <<453, 453, 1, -1>>, <<454, 454, 1, -2>>, <<456, 456, 1, -1>>, <<457, 457, 1, -2>>,
      <<459, 459, 1, -1>>, <<460, 460, 1, -2>>, <<462, 476, 2, -1>>, <<477, 477, 1, -79>>,
      <<479, 495, 2, -1>>, <<498, 498, 1, -1>>, <<499, 499, 1, -2>>, <<501, 501, 1, -1>>,
      <<505, 543, 2, -1>>, <<547, 563, 2, -1>>, <<572, 572, 1, -1>>,
      <<575, 576, 1, 10815>>, <<578, 578, 1, -1>>, <<583, 591, 2, -1>>,
      <<592, 592, 1, 10783>>, <<593, 593, 1, 10780>>, <<594, 594, 1, 10782>>,
      <<595, 595, 1, -210>>, <<596, 596, 1, -206>>, <<598, 599, 1, -205>>,
      <<601, 601, 1, -202>>, <<603, 603, 1, -203>>, <<604, 604, 1, 42319>>,
      <<608, 608, 1, -205>>, <<609, 609, 1, 42315>>, <<611, 611, 1, -207>>,
      <<613, 613, 1, 42280>>, <<614, 614, 1, 42308>>, <<616, 616, 1, -209>>,
      <<617, 617, 1, -211>>, <<618, 618, 1, 42308>>, <<619, 619, 1, 10743>>,
      <<620, 620, 1, 42305>>, <<623, 623, 1, -211>>, <<625, 625, 1, 10749>>,
      <<626, 626, 1, -213>>, <<629, 629, 1, -214>>, <<637, 637, 1, 10727>>,
      <<640, 640, 1, -218>>, <<642, 642, 1, 42307>>, <<643, 643, 1, -218>>,
      <<647, 647, 1, 42282>>, <<648, 648, 1, -218>>, <<649, 649, 1, -69>>,
      <<650, 651, 1, -217>>, <<652, 652, 1, -71>>, <<658, 658, 1, -219>>,
      <<669, 669, 1, 42261>>, <<670, 670, 1, 42258>>, <<837, 837, 1, 84>>,
      <<881, 883, 2, -1>>, <<887, 887, 1, -1>>, <<891, 893, 1, 130>>, <<940, 940, 1, -38>>,
      <<941, 943, 1, -37>>, <<945, 961, 1, -32>>, <<962, 962, 1, -31>>,
      <<963, 971, 1, -32>>, <<972, 972, 1, -64>>, <<973, 974, 1, -63>>,
      <<976, 976, 1, -62>>, <<977, 977, 1, -57>>, <<981, 981, 1, -47>>,
      <<982, 982, 1, -54>>, <<983, 983, 1, -8>>, <<985, 1007, 2, -1>>,
      <<1008, 1008, 1, -86>>, <<1009, 1009, 1, -80>>, <<1010, 1010, 1, 7>>,
      <<1011, 1011, 1, -116>>, <<1013, 1013, 1, -96>>, <<1016, 1016, 1, -1>>,
      <<1019, 1019, 1, -1>>, <<1072, 1103, 1, -32>>, <<1104, 1119, 1, -80>>,
      <<1121, 1153, 2, -1>>, <<1163, 1215, 2, -1>>, <<1218, 1230, 2, -1>>,
      <<1231, 1231, 1, -15>>, <<1233, 1327, 2, -1>>, <<1377, 1414, 1, -48>>,
      <<4304, 4346, 1, 3008>>, <<4349, 4351, 1, 3008>>, <<5112, 5117, 1, -8>>,
      <<7296, 7296, 1, -6254>>, <<7297, 7297, 1, -6253>>, <<7298, 7298, 1, -6244>>,
      <<7299, 7300, 1, -6242>>, <<7301, 7301, 1, -6243>>, <<7302, 7302, 1, -6236>>,
      <<7303, 7303, 1, -6181>>, <<7304, 7304, 1, 35266>>, <<7545, 7545, 1, 35332>>,
      <<7549, 7549, 1, 3814>>, <<7566, 7566, 1, 35384>>, <<7681, 7829, 2, -1>>,
      <<7835, 7835, 1, -59>>, <<7841, 7935, 2, -1>>, <<7936, 7943, 1, 8>>,
      <<7952, 7957, 1, 8>>, <<7968, 7975, 1, 8>>, <<7984, 7991, 1, 8>>,
      <<8000, 8005, 1, 8>>, <<8017, 8023, 2, 8>>, <<8032, 8039, 1, 8>>,
      <<8048, 8049, 1, 74>>, <<8050, 8053, 1, 86>>, <<8054, 8055, 1, 100>>,
      <<8056, 8057, 1, 128>>, <<8058, 8059, 1, 112>>, <<8060, 8061, 1, 126>>,
      <<8064, 8071, 1, 8>>, <<8080, 8087, 1, 8>>, <<8096, 8103, 1, 8>>,
      <<8112, 8113, 1, 8>>, <<8115, 8115, 1, 9>>, <<8126, 8126, 1, -7205>>,
      <<8131, 8131, 1, 9>>, <<8144, 8145, 1, 8>>, <<8160, 8161, 1, 8>>,
      <<8165, 8165, 1, 7>>, <<8179, 8179, 1, 9>>, <<8526, 8526, 1, -28>>,
      <<8560, 8575, 1, -16>>, <<8580, 8580, 1, -1>>, <<9424, 9449, 1, -26>>,
      <<11312, 11359, 1, -48>>, <<11361, 11361, 1, -1>>, <<11365, 11365, 1, -10795>>,
      <<11366, 11366, 1, -10792>>, <<11368, 11372, 2, -1>>, <<11379, 11379, 1, -1>>,
      <<11382, 11382, 1, -1>>, <<11393, 11491, 2, -1>>, <<11500, 11502, 2, -1>>,
      <<11507, 11507, 1, -1>>, <<11520, 11557, 1, -7264>>, <<11559, 11559, 1, -7264>>,
      <<11565, 11565, 1, -7264>>, <<42561, 42605, 2, -1>>, <<42625, 42651, 2, -1>>,
      <<42787, 42799, 2, -1>>, <<42803, 42863, 2, -1>>, <<42874, 42876, 2, -1>>,
      <<42879, 42887, 2, -1>>, <<42892, 42892, 1, -1>>, <<42897, 42899, 2, -1>>,
      <<42900, 42900, 1, 48>>, <<42903, 42921, 2, -1>>, <<42933, 42947, 2, -1>>,
      <<42952, 42954, 2, -1>>, <<42961, 42961, 1, -1>>, <<42967, 42969, 2, -1>>,
      <<42998, 42998, 1, -1>>, <<43859, 43859, 1, -928>>, <<43888, 43967, 1, -38864>>,
      <<65345, 65370, 1, -32>>, <<66600, 66639, 1, -40>>, <<66776, 66811, 1, -40>>,
      <<66967, 66977, 1, -39>>, <<66979, 66993, 1, -39>>, <<66995, 67001, 1, -39>>,
      <<67003, 67004, 1, -39>>, <<68800, 68850, 1, -64>>, <<71872, 71903, 1, -32>>,
      <<93792, 93823, 1, -32>>, <<125218, 125251, 1, -34>>>>

\* the rune r has an upper case in the range c of CaseRanges
InCaseRange(c, r) == r >= c[1] /\ r <= c[2] /\ (r - c[1]) % c[3] = 0

\* unicode.ToUpper
ToUpperRune(r) ==
    IF r < 128 THEN (IF r >= 97 /\ r <= 122 THEN r - 32 ELSE r)
    ELSE IF \E i \in DOMAIN CaseRanges : InCaseRange(CaseRanges[i], r)
         THEN r + CaseRanges[CHOOSE i \in DOMAIN CaseRanges :
                                InCaseRange(CaseRanges[i], r)][4]
    ELSE r

\* strings.ToUpper: strings.Map(unicode.ToUpper, str), rune by rune; a byte that
\* is no valid UTF-8 becomes U+FFFD
RECURSIVE ToUpper(_)
ToUpper(str) ==
    IF str = <<>> THEN <<>>
    ELSE LET d == DecodeRune(str)
         IN  EncodeRune(ToUpperRune(d.r)) \o ToUpper(SubSeq(str, d.size + 1, Len(str)))

\* the command names and SET options the switch names
SET == <<83, 69, 84>>
GET == <<71, 69, 84>>
MGET == <<77, 71, 69, 84>>
DEL == <<68, 69, 76>>
EXISTS == <<69, 88, 73, 83, 84, 83>>
EXPIRE == <<69, 88, 80, 73, 82, 69>>
TTL == <<84, 84, 76>>
PTTL == <<80, 84, 84, 76>>
PERSIST == <<80, 69, 82, 83, 73, 83, 84>>
TYPE == <<84, 89, 80, 69>>
INCR == <<73, 78, 67, 82>>
DECR == <<68, 69, 67, 82>>
INCRBY == <<73, 78, 67, 82, 66, 89>>
DECRBY == <<68, 69, 67, 82, 66, 89>>
INCRBYFLOAT == <<73, 78, 67, 82, 66, 89, 70, 76, 79, 65, 84>>
HSET == <<72, 83, 69, 84>>
HGET == <<72, 71, 69, 84>>
HDEL == <<72, 68, 69, 76>>
HEXISTS == <<72, 69, 88, 73, 83, 84, 83>>
HINCRBY == <<72, 73, 78, 67, 82, 66, 89>>
HINCRBYFLOAT == <<72, 73, 78, 67, 82, 66, 89, 70, 76, 79, 65, 84>>
LPUSH == <<76, 80, 85, 83, 72>>
RPUSH == <<82, 80, 85, 83, 72>>
LPUSHX == <<76, 80, 85, 83, 72, 88>>
RPUSHX == <<82, 80, 85, 83, 72, 88>>
SADD == <<83, 65, 68, 68>>
SREM == <<83, 82, 69, 77>>
SISMEMBER == <<83, 73, 83, 77, 69, 77, 66, 69, 82>>
SCARD == <<83, 67, 65, 82, 68>>
SPOP == <<83, 80, 79, 80>>
SRANDMEMBER == <<83, 82, 65, 78, 68, 77, 69, 77, 66, 69, 82>>
ZADD == <<90, 65, 68, 68>>
EX == <<69, 88>>
PX == <<80, 88>>
EXAT == <<69, 88, 65, 84>>
PXAT == <<80, 88, 65, 84>>
NX == <<78, 88>>
XX == <<88, 88>>
KEEPTTL == <<75, 69, 69, 80, 84, 84, 76>>

\* zap.String(k, v) and zap.Strings(k, vs)
String(k, v) == [k |-> k, str |-> v, list |-> <<>>]

Strings(k, vs) == [k |-> k, str |-> <<>>, list |-> vs]

\* fmt.Sprintf("%s=%s", a, b)
Pair(a, b) == a \o <<61>> \o b

\* args[i:] of Go (i counts from 0)
From(args, i) == SubSeq(args, i + 1, Len(args))

\* ValueOptions without EXAT and PXAT
ValueOptions_Short == {EX, PX}

\* case "EX", "PX", "EXAT", "PXAT"
ValueOptions == {EX, PX, EXAT, PXAT}

\* case "NX", "XX", "KEEPTTL"
FlagOptions == {NX, XX, KEEPTTL}

\* the loop `for i := 2; i < len(cmd.Args); i++` over the SET options (i counts
\* from 0, args[i + 1] is cmd.Args[i])
RECURSIVE setOptions(_, _, _)
setOptions(args, i, options) ==
    IF i >= Len(args) THEN options
    ELSE LET opt == ToUpper(args[i + 1])
         IN  IF opt \in ValueOptions
             THEN IF i + 1 < Len(args)
                  THEN setOptions(args, i + 2, Append(options, Pair(opt, args[i + 2])))
                  ELSE setOptions(args, i + 1, options)
             ELSE IF opt \in FlagOptions
                  THEN setOptions(args, i + 1, Append(options, opt))
                  ELSE setOptions(args, i + 1, options)

\* the loop `for i := 1; i < len(cmd.Args); i += 2` over the ZADD pairs
RECURSIVE zaddPairs(_, _, _)
zaddPairs(args, i, pairs) ==
    IF i >= Len(args) THEN pairs
    ELSE IF i + 1 < Len(args)
         THEN zaddPairs(args, i + 2, Append(pairs, Pair(args[i + 1], args[i + 2])))
         ELSE zaddPairs(args, i + 2, pairs)

\* case "SET"
setFields(args) ==
    IF Len(args) >= 2
    THEN <<String("key", args[1]), String("value", args[2])>>
             \o (IF Len(args) > 2 /\ setOptions(args, 2, <<>>) # <<>>
                 THEN <<Strings("options", setOptions(args, 2, <<>>))>>
                 ELSE <<>>)
    ELSE <<>>

\* IsCountCommand comparing the upper-cased name
IsCountCommand_AnyCase(name) == ToUpper(name) = SPOP \/ ToUpper(name) = SRANDMEMBER

\* `cmd.Name == "SPOP" || cmd.Name == "SRANDMEMBER"`
IsCountCommand(name) == name = SPOP \/ name = SRANDMEMBER

\* case "SADD", "SREM", "SISMEMBER", "SCARD", "SPOP", "SRANDMEMBER"
setOpFields(name, args) ==
    IF Len(args) >= 1
    THEN <<String("key", args[1])>>
             \o (IF Len(args) > 1
                 THEN IF IsCountCommand(name)
                      THEN <<String("count", args[2])>>
                      ELSE <<Strings("members", From(args, 1))>>
                 ELSE <<>>)
    ELSE <<>>

\* the command-specific fields: the switch on strings.ToUpper(cmd.Name)
familyFields(name, args) ==
    LET up == ToUpper(name)
    IN  CASE up = SET -> setFields(args)
          [] up \in {GET, MGET} -> <<Strings("keys", args)>>
          [] up \in {DEL, EXISTS, EXPIRE, TTL, PTTL, PERSIST, TYPE} ->
                <<String("key", args[1])>>
          [] up \in {INCR, DECR, INCRBY, DECRBY, INCRBYFLOAT} ->
                IF Len(args) >= 2
                THEN <<String("key", args[1]), String("amount", args[2])>>
                ELSE <<>>
          [] up \in {HSET, HGET, HDEL, HEXISTS, HINCRBY, HINCRBYFLOAT} ->
                IF Len(args) >= 2
                THEN <<String("key", args[1]), String("field", args[2])>>
                         \o (IF Len(args) > 2 THEN <<String("value", args[3])>> ELSE <<>>)
                ELSE <<>>
          [] up \in {LPUSH, RPUSH, LPUSHX, RPUSHX} ->
                IF Len(args) >= 2
                THEN <<String("key", args[1]), Strings("values", From(args, 1))>>
                ELSE <<>>
          [] up \in {SADD, SREM, SISMEMBER, SCARD, SPOP, SRANDMEMBER} ->
                setOpFields(name, args)
          [] up = ZADD ->
                IF Len(args) >= 3
                THEN <<String("key", args[1]),
                       Strings("score_member_pairs", zaddPairs(args, 1, <<>>))>>
                ELSE <<>>
          [] OTHER -> <<Strings("args", args)>>

\* fields: the command, and, `if len(cmd.Args) > 0`, the command-specific fields
Fields(c) ==
    <<String("command", c.Name)>>
        \o (IF Len(c.Args) > 0 THEN familyFields(c.Name, c.Args) ELSE <<>>)

\* the record of a Command: connLogger's client_addr and the fields
Record(s, c) == [conn |-> s, fields |-> Fields(c)]

\* a bag with one more copy of e
BagAdd(B, e) ==
    IF e \in DOMAIN B THEN [B EXCEPT ![e] = @ + 1] ELSE (e :> 1) @@ B

\* BackendOf with one redisConn shared by all connections
BackendOf_Shared(s) == 1

\* the backend connection the goroutines of connection s use: its own redisConn
BackendOf(s) == s

\* Forwarded with the request built again from the Name alone
Forwarded_NameOnly(c) == Request(<<c.Name>>)

\* what the first goroutine writes for a Command: its Message
Forwarded(c) == c.Message

\* how many bytes of m a Write that fails may have written before: none, or all
\* but the last
CutPoints(m) == {k \in {0, Len(m) - 1} : k < Len(m)}

\* the position at which the ReadCommand call of the first goroutine started: a
\* call that waits inside a message started where `call` says
CallStart(s) == IF call[s] = NoWait THEN cpos[s] ELSE call[s].start

\* the ways its two-byte Reads can go: those of a call that waits have been made
CallShorts(s) ==
    IF call[s] = NoWait THEN ShortReads(cin[s], cpos[s], cshut[s])
    ELSE {short \in ShortReads(cin[s], call[s].start, cshut[s]) :
            short \cap (1..call[s].reads) = call[s].short}

\* parser.ReadCommand() goes on: it returns a Command or an error (the goroutine
\* returns), it panics, which ends the process, or it has taken bytes of a message
\* and waits for more
InboundRead(s) ==
    /\ proc = "running" /\ inPc[s] = "read"
    /\ \E r \in {ReadCommand(cin[s], CallStart(s), cshut[s], short) :
                    short \in CallShorts(s)} :
          /\ r.kind = "block" => r.pos > cpos[s]
          /\ proc' = IF r.kind = "panic" THEN "crashed" ELSE proc
          /\ cmd' = IF r.kind = "cmd" THEN [cmd EXCEPT ![s] = r.cmd] ELSE cmd
          /\ decoded' = IF r.kind = "cmd"
                        THEN [decoded EXCEPT ![s] = Append(@, r.cmd.Message)]
                        ELSE decoded
          /\ cpos' = IF r.kind = "panic" THEN cpos ELSE [cpos EXCEPT ![s] = r.pos]
          /\ inPc' = [inPc EXCEPT ![s] = CASE r.kind = "cmd" -> "log"
                                          [] r.kind = "err" -> "done"
                                          [] OTHER -> @]
          /\ last' = IF r.kind \in {"panic", "block"} THEN last
                     ELSE [last EXCEPT ![s] = [start |-> CallStart(s), end |-> r.pos,
                                               kind |-> r.kind, err |-> r.err,
                                               msg |-> r.cmd.Message]]
          /\ call' = CASE r.kind = "block" ->
                              [call EXCEPT ![s] = [start |-> CallStart(s),
                                                   reads |-> r.reads,
                                                   short |-> r.short]]
                       [] r.kind = "panic" -> call
                       [] OTHER -> [call EXCEPT ![s] = NoWait]
    /\ UNCHANGED <<listenerVars, spc, outPc, cin, crest, cshut, connOpen, backendVars, log,
                   dials>>

\* InboundLog without the call of connLogger.Info
InboundLog_Silent(s) ==
    /\ proc = "running" /\ inPc[s] = "log"
    /\ inPc' = [inPc EXCEPT ![s] = "write"]
    /\ UNCHANGED <<proc, listenerVars, spc, outPc, clientVars, backendVars, cmd, log,
                   decoded, last, call, dials>>

\* connLogger.Info("Received command", fields...)
InboundLog(s) ==
    /\ proc = "running" /\ inPc[s] = "log"
    /\ log' = BagAdd(log, Record(s, cmd[s]))
    /\ inPc' = [inPc EXCEPT ![s] = "write"]
    /\ UNCHANGED <<proc, listenerVars, spc, outPc, clientVars, backendVars, cmd, decoded,
                   last, call, dials>>

\* redisConn.Write(cmd.Message): all of it is written, or, the backend being gone,
\* the write fails after part of it and the goroutine returns
InboundWrite(s) ==
    /\ proc = "running" /\ inPc[s] = "write"
    /\ \/ /\ bin' = [bin EXCEPT ![BackendOf(s)] = @ \o Forwarded(cmd[s])]
          /\ inPc' = [inPc EXCEPT ![s] = "read"]
       \/ /\ bshut[BackendOf(s)]
          /\ \E k \in CutPoints(Forwarded(cmd[s])) :
                bin' = [bin EXCEPT ![BackendOf(s)] = @ \o SubSeq(Forwarded(cmd[s]), 1, k)]
          /\ inPc' = [inPc EXCEPT ![s] = "done"]
    /\ cmd' = [cmd EXCEPT ![s] = NoCmd]
    /\ UNCHANGED <<proc, listenerVars, spc, outPc, clientVars, redis, bout, bpos, bshut,
                   cout, log, decoded, last, call, dials>>

\* OutboundCopy that leaves out the first byte of every read of two bytes or more
OutboundCopy_Drop(s) ==
    /\ proc = "running" /\ outPc[s] = "copy"
    /\ LET b == BackendOf(s)
           data == SubSeq(bout[b], bpos[b], Len(bout[b]))
       IN  \/ /\ data # <<>>
              /\ bpos' = [bpos EXCEPT ![b] = Len(bout[b]) + 1]
              /\ cout' = [cout EXCEPT ![s] = @ \o (IF Len(data) >= 2 THEN Tail(data)
                                                    ELSE data)]
              /\ UNCHANGED outPc
           \/ /\ data = <<>> /\ bshut[b]
              /\ outPc' = [outPc EXCEPT ![s] = "done"]
              /\ UNCHANGED <<bpos, cout>>
    /\ UNCHANGED <<proc, listenerVars, spc, clientVars, redis, bin, bout, bshut,
                   inboundVars, dials>>

\* io.Copy(conn, redisConn): it reads what the backend has sent and writes it to
\* conn (the write fails, after part of it, only when the client is gone); at the
\* backend's EOF it returns
OutboundCopy(s) ==
    /\ proc = "running" /\ outPc[s] = "copy"
    /\ LET b == BackendOf(s)
           data == SubSeq(bout[b], bpos[b], Len(bout[b]))
       IN  \/ /\ data # <<>>
              /\ bpos' = [bpos EXCEPT ![b] = Len(bout[b]) + 1]
              /\ cout' = [cout EXCEPT ![s] = @ \o data]
              /\ UNCHANGED outPc
           \/ /\ data # <<>> /\ cshut[s]
              /\ bpos' = [bpos EXCEPT ![b] = Len(bout[b]) + 1]
              /\ \E k \in CutPoints(data) :
                    cout' = [cout EXCEPT ![s] = @ \o SubSeq(data, 1, k)]
              /\ outPc' = [outPc EXCEPT ![s] = "done"]
           \/ /\ data = <<>> /\ bshut[b]
              /\ outPc' = [outPc EXCEPT ![s] = "done"]
              /\ UNCHANGED <<bpos, cout>>
    /\ UNCHANGED <<proc, listenerVars, spc, clientVars, redis, bin, bout, bshut,
                   inboundVars, dials>>

\* Wait that returns once one of the goroutines has called wg.Done()
Wait_First(s) ==
    /\ proc = "running" /\ spc[s] = "wait"
    /\ inPc[s] = "done" \/ outPc[s] = "done"
    /\ spc' = [spc EXCEPT ![s] = "closed"]
    /\ redis' = [redis EXCEPT ![s] = "closed"]
    /\ connOpen' = [connOpen EXCEPT ![s] = FALSE]
    /\ UNCHANGED <<proc, listenerVars, outPc, cin, crest, cpos, cshut, bin, bout, bpos, bshut,
                   cout, inboundVars, dials>>

\* wg.Wait() returns once both goroutines have called wg.Done(); handleConnection
\* returns and its deferred redisConn.Close() and conn.Close() run
Wait(s) ==
    /\ proc = "running" /\ spc[s] = "wait"
    /\ inPc[s] = "done" /\ outPc[s] = "done"
    /\ spc' = [spc EXCEPT ![s] = "closed"]
    /\ redis' = [redis EXCEPT ![s] = "closed"]
    /\ connOpen' = [connOpen EXCEPT ![s] = FALSE]
    /\ UNCHANGED <<proc, listenerVars, outPc, cin, crest, cpos, cshut, bin, bout, bpos, bshut,
                   cout, inboundVars, dials>>

(***************************************************************************)
(* The peers                                                               *)
(***************************************************************************)
\* the next byte of the client arrives on the connection
ClientSend(s) ==
    /\ proc = "running" /\ spc[s] \in {"dial", "wait"} /\ ~cshut[s]
    /\ crest[s] # <<>>
    /\ cin' = [cin EXCEPT ![s] = Append(@, Head(crest[s]))]
    /\ crest' = [crest EXCEPT ![s] = Tail(@)]
    /\ UNCHANGED <<proc, listenerVars, spc, outPc, cpos, cshut, connOpen, backendVars,
                   inboundVars, dials>>

\* the client closes its connection (it has sent cin and sends no more)
ClientClose(s) ==
    /\ proc = "running" /\ spc[s] \in {"dial", "wait"} /\ ~cshut[s]
    /\ cshut' = [cshut EXCEPT ![s] = TRUE]
    /\ crest' = [crest EXCEPT ![s] = <<>>]
    /\ UNCHANGED <<proc, listenerVars, spc, outPc, cin, cpos, connOpen, backendVars,
                   inboundVars, dials>>

\* the backend sends a byte on the connection
BackendSend(s) ==
    /\ proc = "running" /\ redis[s] = "open" /\ ~bshut[s] /\ Len(bout[s]) < MaxReply
    /\ bout' = [bout EXCEPT ![s] = Append(@, ReplyByte(s))]
    /\ UNCHANGED <<proc, listenerVars, spc, outPc, clientVars, redis, bin, bpos, bshut,
                   cout, inboundVars, dials>>

\* the backend closes the connection
BackendClose(s) ==
    /\ proc = "running" /\ redis[s] = "open" /\ ~bshut[s]
    /\ bshut' = [bshut EXCEPT ![s] = TRUE]
    /\ UNCHANGED <<proc, listenerVars, spc, outPc, clientVars, redis, bin, bout, bpos,
                   cout, inboundVars, dials>>

\* the steps of connection s that the proxy takes
SessionStep(s) ==
    \/ DialOK(s) \/ DialFail(s)
    \/ InboundRead(s) \/ InboundLog(s) \/ InboundWrite(s)
    \/ OutboundCopy(s) \/ Wait(s)

\* the steps of its peers
PeerStep(s) == ClientSend(s) \/ ClientClose(s) \/ BackendSend(s) \/ BackendClose(s)

Next ==
    \/ Listen \/ ListenFail \/ Select \/ AcceptErr \/ Cancel \/ MainExit
    \/ \E s \in Sessions : AcceptOK(s) \/ SessionStep(s) \/ PeerStep(s)

Spec == Init /\ [][Next]_vars

(***************************************************************************)
(* One connection on its own, from the moment Start has accepted it, with  *)
(* the scheduling of its goroutines: handleConnection and each of its two  *)
(* goroutines runs when it can.  Nothing is assumed of the peers.          *)
(***************************************************************************)
\* what the client sends, byte after byte, unless it closes before: two
\* requests; a request and an array of no element
SessInputs(s) ==
    LET b == <<PayloadByte(s)>>
        one == Request(<<b>>)
    IN  { one \o Request(<<b, b>>),
          one \o ZeroCount }

\* Start has accepted connection 1 and runs `go p.handleConnection(conn)`
SessInit ==
    /\ proc = "running" /\ lpc = "select" /\ cancelled = FALSE /\ acceptFailed = FALSE
    /\ spc = [s \in Sessions |-> IF s = 1 THEN "dial" ELSE "idle"]
    /\ inPc = [s \in Sessions |-> "none"]
    /\ outPc = [s \in Sessions |-> "none"]
    /\ cin = [s \in Sessions |-> <<>>]
    /\ \E in \in SessInputs(1) : crest = [s \in Sessions |-> IF s = 1 THEN in ELSE <<>>]
    /\ cpos = [s \in Sessions |-> 1]
    /\ cshut = [s \in Sessions |-> FALSE]
    /\ connOpen = [s \in Sessions |-> s = 1]
    /\ redis = [s \in Sessions |-> "none"]
    /\ bin = [s \in Sessions |-> <<>>]
    /\ bout = [s \in Sessions |-> <<>>]
    /\ bpos = [s \in Sessions |-> 1]
    /\ bshut = [s \in Sessions |-> FALSE]
    /\ cout = [s \in Sessions |-> <<>>]
    /\ cmd = [s \in Sessions |-> NoCmd]
    /\ log = <<>>
    /\ decoded = [s \in Sessions |-> <<>>]
    /\ last = [s \in Sessions |-> NoCall]
    /\ call = [s \in Sessions |-> NoWait]
    /\ dials = [s \in Sessions |-> 0]

SessNext == SessionStep(1) \/ PeerStep(1)

\* ENABLED <<InboundRead(s)>>_vars, written out: some ReadCommand call returns
\* or takes bytes
ReadEnabled(s) ==
    /\ proc = "running" /\ inPc[s] = "read"
    /\ \E r \in {ReadCommand(cin[s], CallStart(s), cshut[s], short) :
                    short \in CallShorts(s)} :
          r.kind # "block" \/ r.pos > cpos[s]

\* the goroutines are scheduled: handleConnection and each of its two goroutines
\* takes a step it can take (weak fairness; for InboundRead written with
\* ReadEnabled)
SessFair ==
    /\ WF_vars(DialOK(1) \/ DialFail(1) \/ Wait(1))
    /\ ([]<>~ReadEnabled(1) \/ []<><<InboundRead(1)>>_vars)
    /\ WF_vars(InboundLog(1) \/ InboundWrite(1))
    /\ WF_vars(OutboundCopy(1))

SessionSpec == SessInit /\ [][SessNext]_vars /\ SessFair

(***************************************************************************)
(* The decoder on many streams: connection 1 is relaying and its client    *)
(* sends a stream of ParseInputs.                                          *)
(***************************************************************************)
\* the bytes of payloads: a letter, CR and LF
PayloadAlphabet == {PayloadByte(1), CR, LF}

Payloads == UNION {[1..n -> PayloadAlphabet] : n \in 0..MaxLen}

\* the well-formed array requests: a name, and up to MaxArgs - 1 args (one payload,
\* repeated)
GeneratedRequests ==
    {Request(<<p>>) : p \in Payloads}
        \cup {Request(<<pq[1]>> \o [i \in 1..k |-> pq[2]]) :
                 pq \in Payloads \X Payloads, k \in 1..(MaxArgs - 1)}

\* and two more: a payload that is a CRLF, and a payload of twelve bytes
ValidRequests ==
    GeneratedRequests
        \cup {Request(<<<<CR, LF>>>>), Request(<<[i \in 1..12 |-> PayloadByte(1)]>>)}

\* other messages the parser accepts: bulk strings, the nil bulk string, a simple
\* string, an error and an integer
OtherMessages ==
    LET a == PayloadByte(1)
    IN  { Bulk(<<a>>), Bulk(<<>>), Bulk(<<CR, LF>>),
          <<DOLLAR, MINUS, 49, CR, LF>>,
          <<PLUS, a, CR, LF>>, <<MINUS, a, CR, LF>>, <<COLON, 49, CR, LF>> }

\* streams that are no well-formed message; seven have runes of two or three
\* bytes (the spaces U+0085, U+00A0 and U+2002, the letter U+4E2D) or a part of
\* one, the last two an underscore in a number
Malformed ==
    LET a == PayloadByte(1)
    IN  { ZeroCount,
          <<STAR, MINUS, 49, CR, LF>>,
          <<STAR, 120, CR, LF>>,
          <<63, CR, LF>>,
          NilInArray,
          <<STAR, 50, CR, LF>> \o Bulk(<<a>>) \o <<DOLLAR, MINUS, 49, CR, LF>>,
          <<STAR, 49, CR, LF, DOLLAR, 120, CR, LF>>,
          <<DOLLAR, MINUS, 50, CR, LF>>,
          <<DOLLAR, 120, CR, LF>>,
          <<STAR, PLUS, 49, CR, LF>> \o Bulk(<<a>>),
          <<STAR, 48, 49, CR, LF>> \o Bulk(<<a>>),
          <<STAR, 49, LF, DOLLAR, 49, LF, a, CR, LF>>,
          <<STAR, 49, CR, LF, DOLLAR, 49, CR, LF, a, a, a>>,
          <<STAR, 194, 133, 49, CR, LF>> \o Bulk(<<a>>),
          <<STAR, 49, 194, 160, CR, LF>> \o Bulk(<<a>>),
          <<STAR, 49, CR, LF, DOLLAR, 226, 128, 130, 49, CR, LF, a, CR, LF>>,
          <<STAR, 228, 184, 173, CR, LF>>,
          <<STAR, 49, CR, LF, 228, 184, 173, 49, CR, LF, a, CR, LF>>,
          <<STAR, 49, 226, 130, CR, LF>>,
          <<STAR, 48, 194, 160, CR, LF>>,
          <<STAR, 49, 95, 48, CR, LF>> \o Bulk(<<a>>),
          <<STAR, 49, CR, LF, DOLLAR, 49, 95, CR, LF, a, CR, LF>> }

\* what follows the first message
Seconds == {Request(<<<<PayloadByte(1)>>>>), ZeroCount}

\* the streams: a first message and a second; the client sends them byte after
\* byte and may close after any of them
ParseInputs ==
    { f \o g : f \in ValidRequests \cup OtherMessages \cup Malformed, g \in Seconds }

ParseInit ==
    /\ proc = "running" /\ lpc = "select" /\ cancelled = FALSE /\ acceptFailed = FALSE
    /\ spc = [s \in Sessions |-> IF s = 1 THEN "wait" ELSE "idle"]
    /\ inPc = [s \in Sessions |-> IF s = 1 THEN "read" ELSE "none"]
    /\ outPc = [s \in Sessions |-> IF s = 1 THEN "copy" ELSE "none"]
    /\ cin = [s \in Sessions |-> <<>>]
    /\ \E in \in ParseInputs : crest = [s \in Sessions |-> IF s = 1 THEN in ELSE <<>>]
    /\ cpos = [s \in Sessions |-> 1]
    /\ cshut = [s \in Sessions |-> FALSE]
    /\ connOpen = [s \in Sessions |-> s = 1]
    /\ redis = [s \in Sessions |-> IF s = 1 THEN "open" ELSE "none"]
    /\ bin = [s \in Sessions |-> <<>>]
    /\ bout = [s \in Sessions |-> <<>>]
    /\ bpos = [s \in Sessions |-> 1]
    /\ bshut = [s \in Sessions |-> FALSE]
    /\ cout = [s \in Sessions |-> <<>>]
    /\ cmd = [s \in Sessions |-> NoCmd]
    /\ log = <<>>
    /\ decoded = [s \in Sessions |-> <<>>]
    /\ last = [s \in Sessions |-> NoCall]
    /\ call = [s \in Sessions |-> NoWait]
    /\ dials = [s \in Sessions |-> IF s = 1 THEN 1 ELSE 0]

ParseNext ==
    \/ InboundRead(1) \/ InboundLog(1) \/ InboundWrite(1)
    \/ ClientSend(1) \/ ClientClose(1) \/ BackendClose(1)

ParseSpec == ParseInit /\ [][ParseNext]_vars

(***************************************************************************)
(* The classification on many requests: connection 1 is relaying and its   *)
(* client sends one request of ClassInputs.                                *)
(***************************************************************************)
ToLowerByte(b) == IF b >= 65 /\ b <= 90 THEN b + 32 ELSE b

ToLower(str) == [i \in 1..Len(str) |-> ToLowerByte(str[i])]

\* the names of the switch
TableNames ==
    {SET, GET, MGET, DEL, EXISTS, EXPIRE, TTL, PTTL, PERSIST, TYPE, INCR, DECR, INCRBY,
     DECRBY, INCRBYFLOAT, HSET, HGET, HDEL, HEXISTS, HINCRBY, HINCRBYFLOAT, LPUSH, RPUSH,
     LPUSHX, RPUSHX, SADD, SREM, SISMEMBER, SCARD, SPOP, SRANDMEMBER, ZADD}

\* "PING"
PING == <<80, 73, 78, 71>>

\* names with runes that are not ASCII: "set" with a long s (U+017F), "incr" with
\* a dotless i (U+0131), "spop" with an o umlaut, "s", the byte 0xFF, "t", and
\* "get" with a Greek gamma (U+03B3) and a Cyrillic ie (U+0435)
RuneNames ==
    {<<197, 191, 101, 116>>, <<196, 177, 110, 99, 114>>, <<115, 112, 195, 182, 112>>,
     <<115, 255, 116>>, <<206, 179, 208, 181, 116>>}

\* the names sent: those of the switch in upper and in lower case, "Spop", "PING"
\* and the RuneNames
ClassNames ==
    TableNames \cup {ToLower(n) : n \in TableNames} \cup {<<83, 112, 111, 112>>, PING}
        \cup RuneNames

\* all sequences over S of length at most n
SeqsUpTo(S, n) == UNION {[1..k -> S] : k \in 0..n}

\* the args sent: "k", "1" and "2"
ClassArgAlphabet == {<<107>>, <<49>>, <<50>>}

\* what may follow key and value of a SET: "EX", "ex", "NX", "KEEPTTL", "PXAT", "10", "FOO"
OptTokens == {EX, ToLower(EX), NX, KEEPTTL, PXAT, <<49, 48>>, <<70, 79, 79>>}

\* the requests: every name with up to MaxClassArgs args, and SET with key "x",
\* value "1" and up to MaxOpts further args
ClassInputs ==
    {Request(<<n>> \o a) : n \in ClassNames, a \in SeqsUpTo(ClassArgAlphabet, MaxClassArgs)}
        \cup {Request(<<n, <<120>>, <<49>>>> \o o) :
                n \in {SET, ToLower(SET)}, o \in SeqsUpTo(OptTokens, MaxOpts)}

ClassInit ==
    /\ proc = "running" /\ lpc = "select" /\ cancelled = FALSE /\ acceptFailed = FALSE
    /\ spc = [s \in Sessions |-> IF s = 1 THEN "wait" ELSE "idle"]
    /\ inPc = [s \in Sessions |-> IF s = 1 THEN "read" ELSE "none"]
    /\ outPc = [s \in Sessions |-> IF s = 1 THEN "copy" ELSE "none"]
    /\ \E in \in ClassInputs : cin = [s \in Sessions |-> IF s = 1 THEN in ELSE <<>>]
    /\ crest = [s \in Sessions |-> <<>>]
    /\ cpos = [s \in Sessions |-> 1]
    /\ cshut = [s \in Sessions |-> FALSE]
    /\ connOpen = [s \in Sessions |-> s = 1]
    /\ redis = [s \in Sessions |-> IF s = 1 THEN "open" ELSE "none"]
    /\ bin = [s \in Sessions |-> <<>>]
    /\ bout = [s \in Sessions |-> <<>>]
    /\ bpos = [s \in Sessions |-> 1]
    /\ bshut = [s \in Sessions |-> FALSE]
    /\ cout = [s \in Sessions |-> <<>>]
    /\ cmd = [s \in Sessions |-> NoCmd]
    /\ log = <<>>
    /\ decoded = [s \in Sessions |-> <<>>]
    /\ last = [s \in Sessions |-> NoCall]
    /\ call = [s \in Sessions |-> NoWait]
    /\ dials = [s \in Sessions |-> IF s = 1 THEN 1 ELSE 0]

ClassNext == InboundRead(1) \/ InboundLog(1) \/ InboundWrite(1)

ClassSpec == ClassInit /\ [][ClassNext]_vars

(***************************************************************************)
(* The relay of replies: connection 1 is relaying, its backend has sent a  *)
(* first burst of bytes and sends more.                                    *)
(***************************************************************************)
\* the first bytes of the backend: up to MaxBurst bytes, each the reply byte or '-'
RelayBursts == UNION {[1..k -> {ReplyByte(1), MINUS}] : k \in 0..MaxBurst}

\* what the client sends: a request, a bad array header, or a request cut short
RelayInputs ==
    {Request(<<<<PayloadByte(1)>>>>), ZeroCount, <<STAR, 49, CR, LF, DOLLAR>>}

RelayInit ==
    /\ proc = "running" /\ lpc = "select" /\ cancelled = FALSE /\ acceptFailed = FALSE
    /\ spc = [s \in Sessions |-> IF s = 1 THEN "wait" ELSE "idle"]
    /\ inPc = [s \in Sessions |-> IF s = 1 THEN "read" ELSE "none"]
    /\ outPc = [s \in Sessions |-> IF s = 1 THEN "copy" ELSE "none"]
    /\ \E in \in RelayInputs : cin = [s \in Sessions |-> IF s = 1 THEN in ELSE <<>>]
    /\ crest = [s \in Sessions |-> <<>>]
    /\ cpos = [s \in Sessions |-> 1]
    /\ cshut = [s \in Sessions |-> FALSE]
    /\ connOpen = [s \in Sessions |-> s = 1]
    /\ redis = [s \in Sessions |-> IF s = 1 THEN "open" ELSE "none"]
    /\ bin = [s \in Sessions |-> <<>>]
    /\ \E b \in RelayBursts : bout = [s \in Sessions |-> IF s = 1 THEN b ELSE <<>>]
    /\ bpos = [s \in Sessions |-> 1]
    /\ bshut = [s \in Sessions |-> FALSE]
    /\ cout = [s \in Sessions |-> <<>>]
    /\ cmd = [s \in Sessions |-> NoCmd]
    /\ log = <<>>
    /\ decoded = [s \in Sessions |-> <<>>]
    /\ last = [s \in Sessions |-> NoCall]
    /\ call = [s \in Sessions |-> NoWait]
    /\ dials = [s \in Sessions |-> IF s = 1 THEN 1 ELSE 0]

\* the backend sends one more byte after the burst
RelaySend(s) ==
    /\ proc = "running" /\ redis[s] = "open" /\ ~bshut[s]
    /\ Len(bout[s]) < MaxBurst + MaxReply
    /\ bout' = [bout EXCEPT ![s] = Append(@, ReplyByte(s))]
    /\ UNCHANGED <<proc, listenerVars, spc, outPc, clientVars, redis, bin, bpos, bshut,
                   cout, inboundVars, dials>>

RelayNext ==
    \/ InboundRead(1) \/ InboundLog(1) \/ InboundWrite(1)
    \/ OutboundCopy(1) \/ Wait(1)
    \/ ClientClose(1) \/ RelaySend(1) \/ BackendClose(1)

RelaySpec == RelayInit /\ [][RelayNext]_vars

(***************************************************************************)
(* The claims                                                              *)
(***************************************************************************)
IsPrefix(a, b) == Len(a) <= Len(b) /\ SubSeq(b, 1, Len(a)) = a

\* the stream `in` holds all of m from position p on
HasPrefixAt(in, p, m) ==
    p >= 1 /\ p + Len(m) - 1 <= Len(in) /\ SubSeq(in, p, p + Len(m) - 1) = m

\* the stream `in` ends inside a well-formed message that starts at position p
CutInside(in, p) ==
    /\ p >= 1 /\ p <= Len(in)
    /\ \E m \in ValidRequests \cup OtherMessages :
          /\ Len(in) - p + 1 < Len(m)
          /\ SubSeq(m, 1, Len(in) - p + 1) = SubSeq(in, p, Len(in))

\* no byte of seq is a payload or reply byte of a connection other than s
OwnBytes(s, seq) ==
    \A i \in 1..Len(seq) : \A t \in Sessions \ {s} :
        seq[i] # PayloadByte(t) /\ seq[i] # ReplyByte(t)

\* C1: once the client has closed its connection while the session is relaying,
\* handleConnection eventually returns and the backend connection is closed,
\* whatever the backend does.
C1_ClientCloseEndsSession ==
    \A s \in Sessions :
        (cshut[s] /\ spc[s] = "wait") ~> (spc[s] = "closed" /\ redis[s] = "closed")

\* C2: once one of the two directions has ended, both connections are closed and
\* the other direction ends as well: the session eventually returns.
C2_FirstEndClosesBoth ==
    \A s \in Sessions :
        (spc[s] = "wait" /\ (inPc[s] = "done" \/ outPc[s] = "done"))
            ~> (inPc[s] = "done" /\ outPc[s] = "done" /\ ~connOpen[s])

\* C3: once the cancellation signal has fired, Start spawns no further session.
C3_NoAcceptAfterCancel ==
    [][cancelled => \A s \in Sessions : spc[s] = "idle" => spc'[s] = "idle"]_vars

\* C4: no byte sequence of a client makes the process panic.
C4_NeverPanics == proc # "crashed"

\* C5: the Message of the Command returned for a well-formed array request is
\* exactly the bytes the call has taken from the stream.
C5_MessageIsBytesConsumed ==
    \A s \in Sessions :
        (/\ last[s].kind = "cmd"
         /\ \E m \in ValidRequests : HasPrefixAt(cin[s], last[s].start, m))
            => last[s].msg = SubSeq(cin[s], last[s].start, last[s].end - 1)

\* C6 as stated: the bytes written to the backend are the Messages of a prefix of
\* the decoded commands, concatenated.
C6_WholeMessagesOnly ==
    \A s \in Sessions :
        \E n \in 0..Len(decoded[s]) : bin[s] = Concat(SubSeq(decoded[s], 1, n))

\* C6 as amended: the bytes written to the backend are the Messages, in decode
\* order, of all decoded commands but at most the last, followed, only when a
\* write has failed and ended the inbound direction, by a proper prefix of the
\* Message of the next one.
C6_OrderedPrefix ==
    \A s \in Sessions :
        \E n \in 0..Len(decoded[s]) :
            /\ n >= Len(decoded[s]) - 1
            /\ \/ bin[s] = Concat(SubSeq(decoded[s], 1, n))
               \/ /\ inPc[s] = "done" /\ n < Len(decoded[s])
                  /\ \E k \in 1..(Len(decoded[s][n + 1]) - 1) :
                        bin[s] = Concat(SubSeq(decoded[s], 1, n))
                                     \o SubSeq(decoded[s][n + 1], 1, k)

\* two different requests were decoded and both are written, in order
C6_Witness ==
    \E s \in Sessions :
        /\ Len(decoded[s]) = 2 /\ decoded[s][1] # decoded[s][2]
        /\ bin[s] = decoded[s][1] \o decoded[s][2]

\* C7: when the client's stream ends inside a message, the ReadCommand call that
\* started at that message returns an error and no Command, and the bytes written
\* to the backend are those of earlier commands only.
C7_TruncatedIsError ==
    \A s \in Sessions :
        (cshut[s] /\ last[s].kind # "none" /\ CutInside(cin[s], last[s].start))
            => /\ last[s].kind = "err"
               /\ cmd[s] = NoCmd
               /\ IsPrefix(bin[s], Concat(decoded[s]))

\* C8: the bytes written to a connection's backend come from its own client, the
\* bytes written to its client from its own backend, and every record carries the
\* connection and the command of one session.
C8_NoCrossTalk ==
    /\ \A s \in Sessions :
          /\ OwnBytes(s, bin[s]) /\ IsPrefix(bin[s], Concat(decoded[s]))
          /\ OwnBytes(s, cout[s]) /\ IsPrefix(cout[s], bout[s])
    /\ \A r \in DOMAIN log :
          /\ \A i \in 1..Len(r.fields) :
                /\ OwnBytes(r.conn, r.fields[i].str)
                /\ \A j \in 1..Len(r.fields[i].list) : OwnBytes(r.conn, r.fields[i].list[j])
          /\ \E i \in 1..Len(decoded[r.conn]) :
                HasPrefixAt(decoded[r.conn][i], 5, Bulk(r.fields[1].str))

\* both sessions have forwarded a request and relayed a reply
C8_Witness ==
    /\ \A s \in Sessions : bin[s] # <<>> /\ cout[s] # <<>>
    /\ \A s \in Sessions : \E r \in DOMAIN log : r.conn = s

\* C9: after a failed dial the session has returned and closed the client
\* connection, no goroutine was started, no byte was read or decoded, no record
\* was emitted, nothing was written, and the dial was made once.
C9_DialFailureEndsSession ==
    \A s \in Sessions :
        redis[s] = "failed"
            => /\ spc[s] = "closed" /\ ~connOpen[s]
               /\ inPc[s] = "none" /\ outPc[s] = "none"
               /\ cpos[s] = 1 /\ decoded[s] = <<>> /\ last[s] = NoCall
               /\ \A r \in DOMAIN log : r.conn # s
               /\ bin[s] = <<>> /\ cout[s] = <<>>
               /\ dials[s] = 1

\* the dial failed for a client that has sent a request and closed
C9_Witness ==
    \E s \in Sessions : redis[s] = "failed" /\ cin[s] # <<>> /\ cshut[s]

\* the array headers with a count below 1
BadCounts == {ZeroCount, <<STAR, MINUS, 49, CR, LF>>}

\* C10: a ReadCommand call that starts at an array header with a count below 1
\* returns the invalid-argument-count error and no Command, has read the header
\* and nothing after it, ends the inbound direction, and nothing of it is written.
C10_InvalidCount ==
    \A s \in Sessions : \A h \in BadCounts :
        (last[s].kind # "none" /\ HasPrefixAt(cin[s], last[s].start, h))
            => /\ last[s].kind = "err" /\ last[s].err = "invalid argument count"
               /\ cmd[s] = NoCmd
               /\ last[s].end = last[s].start + Len(h)
               /\ inPc[s] = "done"
               /\ IsPrefix(bin[s], Concat(decoded[s]))

\* the header followed a request that was decoded and forwarded
C10_Witness ==
    \E s \in Sessions :
        /\ last[s].err = "invalid argument count"
        /\ HasPrefixAt(cin[s], last[s].start, ZeroCount)
        /\ Len(decoded[s]) = 1 /\ bin[s] = decoded[s][1]

\* the record of connection s is in the log with exactly the fields fs
Logged(s, fs) == \E r \in DOMAIN log : r.conn = s /\ r.fields = fs

\* the options of a SET as C11 describes them: EX, PX, EXAT and PXAT take the next
\* arg, NX, XX and KEEPTTL stand alone, anything else is skipped (tokens are
\* compared in upper case; a last token with no arg after it yields nothing)
RECURSIVE C11_Options(_)
C11_Options(rest) ==
    IF rest = <<>> THEN <<>>
    ELSE LET t == ToUpper(Head(rest))
         IN  IF t \in {<<69, 88>>, <<80, 88>>, <<69, 88, 65, 84>>, <<80, 88, 65, 84>>}
             THEN IF Len(rest) >= 2
                  THEN <<t \o <<61>> \o rest[2]>> \o C11_Options(Tail(Tail(rest)))
                  ELSE <<>>
             ELSE IF t \in {<<78, 88>>, <<88, 88>>, <<75, 69, 69, 80, 84, 84, 76>>}
                  THEN <<t>> \o C11_Options(Tail(rest))
                  ELSE C11_Options(Tail(rest))

\* C11: the record of a SET (in any letter case) with at least two args has the
\* command, key = args[0], value = args[1] and, when the scan of the remaining
\* args yields any, the options in scan order.
C11_SetFields ==
    \A s \in Sessions :
        (/\ inPc[s] = "write"
         /\ ToUpper(cmd[s].Name) = <<83, 69, 84>>
         /\ Len(cmd[s].Args) >= 2)
            => LET a == cmd[s].Args
                   o == C11_Options(SubSeq(a, 3, Len(a)))
               IN  Logged(s, <<String("command", cmd[s].Name), String("key", a[1]),
                               String("value", a[2])>>
                                 \o (IF o = <<>> THEN <<>> ELSE <<Strings("options", o)>>))

\* `SET x 1 EX 10 NX` is logged with key "x", value "1", options ["EX=10", "NX"]
C11_Witness ==
    /\ inPc[1] = "write"
    /\ cmd[1].Name = <<83, 69, 84>>
    /\ cmd[1].Args = << <<120>>, <<49>>, <<69, 88>>, <<49, 48>>, <<78, 88>> >>
    /\ Logged(1, <<String("command", <<83, 69, 84>>), String("key", <<120>>),
                   String("value", <<49>>),
                   Strings("options", << <<69, 88, 61, 49, 48>>, <<78, 88>> >>)>>)

\* C12: the record of SPOP or SRANDMEMBER in any letter case with at least two
\* args has key = args[0] and count = args[1] and no members; the record of SADD,
\* SREM, SISMEMBER or SCARD in any letter case has the remaining args as members.
C12_SetOpsAnyCase ==
    \A s \in Sessions :
        (inPc[s] = "write" /\ Len(cmd[s].Args) >= 2)
            => LET n == cmd[s].Name
                   a == cmd[s].Args
               IN  /\ ToUpper(n) \in {SPOP, SRANDMEMBER}
                        => Logged(s, <<String("command", n), String("key", a[1]),
                                       String("count", a[2])>>)
                   /\ ToUpper(n) \in {SADD, SREM, SISMEMBER, SCARD}
                        => Logged(s, <<String("command", n), String("key", a[1]),
                                       Strings("members", SubSeq(a, 2, Len(a)))>>)

\* the families whose first field is key = args[0]
C18_Keyed ==
    TableNames \ {GET, MGET}

\* C18: the classification leaves the Command as it was decoded, the record of a
\* command of a keyed family that has args has at least the key, and the bytes
\* written to the backend are the Message.
C18_GracefulPrefix ==
    \A s \in Sessions :
        /\ (inPc[s] = "write" /\ ToUpper(cmd[s].Name) \in C18_Keyed /\ Len(cmd[s].Args) >= 1)
              => \E r \in DOMAIN log :
                    /\ r.conn = s /\ Len(r.fields) >= 2
                    /\ r.fields[1] = String("command", cmd[s].Name)
                    /\ r.fields[2] = String("key", cmd[s].Args[1])
        /\ inPc[s] = "write" => cmd[s].Message = last[s].msg
        /\ IsPrefix(bin[s], Concat(decoded[s]))

\* `$-1\r\n`
NilBulk == <<DOLLAR, MINUS, 49, CR, LF>>

\* C13: a ReadCommand call that starts at `$-1\r\n` returns a Command (its Name is
\* the marker "nil", it has no args) whose Message is those five bytes, and the
\* stream position after it is the byte that follows them.
C13_NilBulk ==
    \A s \in Sessions :
        (last[s].kind # "none" /\ HasPrefixAt(cin[s], last[s].start, NilBulk))
            => /\ last[s].kind = "cmd"
               /\ last[s].msg = <<36, 45, 49, 13, 10>>
               /\ last[s].end = last[s].start + 5
               /\ inPc[s] = "log"
                    => cmd[s] = Command(<<110, 105, 108>>, <<36, 45, 49, 13, 10>>, <<>>)

\* a nil bulk string was decoded and the request after it was decoded next
C13_Witness ==
    \E s \in Sessions :
        /\ Len(decoded[s]) = 2 /\ decoded[s][1] = NilBulk
        /\ decoded[s][2] = Request(<<<<PayloadByte(1)>>>>)
        /\ last[s].start = 6

\* C15: after a ReadCommand call that returns a Command for a well-formed message,
\* the stream position is the first byte after that message, however the
\* transport has split the stream into reads.
C15_WholeMessageConsumed ==
    \A s \in Sessions :
        \A m \in ValidRequests \cup OtherMessages :
            (last[s].kind = "cmd" /\ HasPrefixAt(cin[s], last[s].start, m))
                => last[s].end = last[s].start + Len(m)

\* C14: a session that was dialed has its two goroutines, a session that was not
\* has none, and handleConnection of a dialed session has returned (both
\* connections closed) only when both goroutines have ended.
C14_ClosedAfterBoth ==
    \A s \in Sessions :
        /\ redis[s] \in {"open", "closed"} => inPc[s] # "none" /\ outPc[s] # "none"
        /\ redis[s] \in {"none", "failed"} => inPc[s] = "none" /\ outPc[s] = "none"
        /\ (spc[s] = "closed" /\ redis[s] # "failed")
              => inPc[s] = "done" /\ outPc[s] = "done" /\ redis[s] = "closed" /\ ~connOpen[s]
        /\ redis[s] = "closed" => spc[s] = "closed"

\* a session that forwarded a request and relayed a reply has returned
C14_Witness ==
    \E s \in Sessions :
        spc[s] = "closed" /\ redis[s] = "closed" /\ bin[s] # <<>> /\ cout[s] # <<>>

\* the number of records of connection s in the log
RECURSIVE SumOver(_, _)
SumOver(B, D) ==
    IF D = {} THEN 0
    ELSE LET r == CHOOSE x \in D : TRUE IN B[r] + SumOver(B, D \ {r})

RecordCount(s) == SumOver(log, {r \in DOMAIN log : r.conn = s})

\* the number of commands of connection s whose Message is written whole
WrittenCount(s) ==
    CHOOSE n \in 0..Len(decoded[s]) :
        /\ IsPrefix(Concat(SubSeq(decoded[s], 1, n)), bin[s])
        /\ n < Len(decoded[s]) => ~IsPrefix(Concat(SubSeq(decoded[s], 1, n + 1)), bin[s])

\* C16: there is one record for every Command ReadCommand has returned (but for
\* the one that is about to be logged) and none for a call that returned an
\* error; the commands written are at most the records and at least the records
\* minus one.
C16_RecordBeforeWrite ==
    \A s \in Sessions :
        /\ RecordCount(s) = IF inPc[s] = "log" THEN Len(decoded[s]) - 1 ELSE Len(decoded[s])
        /\ WrittenCount(s) <= RecordCount(s)
        /\ WrittenCount(s) >= RecordCount(s) - 1
        /\ inPc[s] = "read" => WrittenCount(s) = RecordCount(s)

\* two commands were logged and written, and the third message failed to decode
C16_Witness ==
    \E s \in Sessions :
        RecordCount(s) = 2 /\ WrittenCount(s) = 2 /\ last[s].kind = "err"

\* C17: the bytes written to the client are a prefix of the bytes its backend
\* has sent.
C17_UnmediatedRelay ==
    \A s \in Sessions :
        /\ IsPrefix(cout[s], bout[s])
        /\ Len(cout[s]) < bpos[s]

\* after a decode error the client has got the bytes of the backend, sent in two
\* parts, and nothing else
C17_Witness ==
    \E s \in Sessions :
        /\ last[s].kind = "err" /\ last[s].err = "invalid argument count"
        /\ Len(bout[s]) = MaxBurst + 1 /\ cout[s] = bout[s]
        /\ bout[s][1] # bout[s][2]

\* C19: once the cancellation has fired, a session that is relaying is not
\* stopped from outside: the process does not exit under it.
C19_SessionsOutliveCancel ==
    [][(cancelled /\ \E s \in Sessions : spc[s] = "wait") => proc' # "exited"]_vars

\* C20: Start returns only when net.Listen fails or at the select after the
\* cancellation; an Accept that returns goes back to the select; a session starts
\* only at an Accept that returns, and one at a time; no step of a session moves
\* Start.
C20_AcceptErrorNotFatal ==
    [][/\ (lpc # "returned" /\ lpc' = "returned")
             => (lpc = "listen" \/ (lpc = "select" /\ cancelled))
       /\ (lpc = "accept" /\ lpc' # "accept") => lpc' = "select"
       /\ \A s \in Sessions :
             (spc[s] = "idle" /\ spc'[s] # "idle")
                => /\ lpc = "accept" /\ lpc' = "select" /\ acceptFailed' = acceptFailed
                   /\ \A t \in Sessions \ {s} : spc'[t] = spc[t]
       /\ (acceptFailed' /\ ~acceptFailed) => spc' = spc /\ lpc' = "select"
       /\ (\E s \in Sessions : spc'[s] # spc[s] /\ spc[s] # "idle") => lpc' = lpc
      ]_vars

\* after a failed Accept a connection was accepted and its session has run and
\* returned, and Start is still in its loop
C20_Witness ==
    /\ acceptFailed /\ ~cancelled /\ lpc \in {"select", "accept"}
    /\ \E s \in Sessions : spc[s] = "closed" /\ redis[s] = "closed"

====
